---- MODULE Spec2Model ----
(***************************************************************************)
(* MuscleMetabolicPowerProbeBhargava2004 and its MetabolicMuscleParameter. *)
(*                                                                         *)
(* Doubles are modelled in fixed point, every quantity an integer number   *)
(* of a stated unit:                                                       *)
(*   mass                       1e-4 kg                                    *)
(*   force                      N                                          *)
(*   fiber velocity             m/s                                        *)
(*   optimal fiber length       mm                                         *)
(*   specific tension           kPa                                        *)
(*   density                    0.1 kg/m^3                                 *)
(*   ratio_slow_twitch_fibers   halves   (0, 1, 2  =  0, 0.5, 1)           *)
(*   fiber length dependence f  halves   (0, 1, 2  =  0, 0.5, 1)           *)
(*   basal_coefficient          tenths                                     *)
(*   excitation u               thirds   (0, 1, 2, 3  =  0, 1/3, 2/3, 1)   *)
(*   sin, 1 - cos               hundredths, rounded to the nearest         *)
(*   every heat or work rate    2.5e-5 W (UnitsPerWatt units to the watt)  *)
(* The input sets are chosen so that every division is exact, except the   *)
(* one by TrigScale at the excitations 1/3 and 2/3, where sin and cos are   *)
(* irrational and the result is rounded down.                              *)
(***************************************************************************)
EXTENDS Integers, Sequences, FiniteSets, TLC

VARIABLES
    phase,      \* "config" | "connected" | "failed"
    params,     \* metabolic_parameters: sequence of MetabolicMuscleParameter
    muscleMap,  \* _muscleMap: muscle name -> muscle of the model
    flags,      \* the probe's seven boolean properties
    basalExp,   \* basal_exponent
    probeName,  \* Object name of the probe
    err,        \* error raised by the last connectToModel
    lastOp,     \* the operation that produced this state
    evalIn,     \* last computeProbeInputs: the muscles' dynamic states
    out,        \* last computeProbeInputs: the returned vector
    visited,    \* last computeProbeInputs: the muscles in the order read
    termIn,     \* per-muscle terms: the inputs
    termOut,    \* per-muscle terms: the result
    massIn,     \* mass resolution: the inputs
    massOut     \* mass resolution: the result

vars == <<phase, params, muscleMap, flags, basalExp, probeName, err, lastOp,
          evalIn, out, visited, termIn, termOut, massIn, massOut>>

\* ---------------------------------------------------------------- bounds

MaxMuscles == 2

\* ------------------------------------------------------------ fixed point

UnitsPerWatt == 4 * 10000
\* alpha is kept in thousandths of a newton
UnitsPerMilliWatt == UnitsPerWatt \div 1000
\* 1 W/kg on a mass in 1e-4 kg
UnitsPerMassWatt == UnitsPerWatt \div 10000
MassUnitsPerKg == 10 * 1000

NaN == -1000000
IsNaN(x) == x = NaN

Max(a, b) == IF a >= b THEN a ELSE b

RECURSIVE Pow(_, _)
Pow(b, e) == IF e = 0 THEN 1 ELSE b * Pow(b, e - 1)

RECURSIVE SumSeq(_)
SumSeq(s) == IF s = <<>> THEN 0 ELSE Head(s) + SumSeq(Tail(s))

\* ------------------------------------------- MetabolicMuscleParameter

DefaultSpecificTension == 250
DefaultDensity == 10597
DefaultRatioSlowTwitch == 1
DefaultActivationSlow == 40
DefaultActivationFast == 133
DefaultMaintenanceSlow == 74
DefaultMaintenanceFast == 111

setNull(p) == [p EXCEPT !.muscMass = NaN]

constructProperties ==
    [ name |-> "",
      specific_tension |-> DefaultSpecificTension,
      density |-> DefaultDensity,
      ratio_slow_twitch_fibers |-> DefaultRatioSlowTwitch,
      use_provided_muscle_mass |-> FALSE,
      provided_muscle_mass |-> NaN,
      activation_constant_slow_twitch |-> DefaultActivationSlow,
      activation_constant_fast_twitch |-> DefaultActivationFast,
      maintenance_constant_slow_twitch |-> DefaultMaintenanceSlow,
      maintenance_constant_fast_twitch |-> DefaultMaintenanceFast,
      muscMass |-> 0 ]

MetabolicMuscleParameter0 == setNull(constructProperties)

MetabolicMuscleParameter1(ratio) ==
    [MetabolicMuscleParameter0 EXCEPT !.ratio_slow_twitch_fibers = ratio]

MetabolicMuscleParameter2(ratio, muscle_mass) ==
    [MetabolicMuscleParameter0 EXCEPT
        !.ratio_slow_twitch_fibers = ratio,
        !.use_provided_muscle_mass = TRUE,
        !.provided_muscle_mass = muscle_mass]

MetabolicMuscleParameter5(ratio, aSlow, aFast, mSlow, mFast) ==
    [MetabolicMuscleParameter0 EXCEPT
        !.ratio_slow_twitch_fibers = ratio,
        !.activation_constant_slow_twitch = aSlow,
        !.activation_constant_fast_twitch = aFast,
        !.maintenance_constant_slow_twitch = mSlow,
        !.maintenance_constant_fast_twitch = mFast]

setName(p, n) == [p EXCEPT !.name = n]
set_use_provided_muscle_mass(p, b) == [p EXCEPT !.use_provided_muscle_mass = b]
set_provided_muscle_mass(p, m) == [p EXCEPT !.provided_muscle_mass = m]
set_specific_tension(p, s) == [p EXCEPT !.specific_tension = s]
set_density(p, d) == [p EXCEPT !.density = d]
set_ratio_slow_twitch_fibers(p, r) == [p EXCEPT !.ratio_slow_twitch_fibers = r]

getMuscleMass(p) == p.muscMass

setMuscleMass_Accumulate(p, mass) ==
    [p EXCEPT !.muscMass = IF IsNaN(p.muscMass) THEN mass ELSE p.muscMass + mass]

setMuscleMass(p, mass) == [p EXCEPT !.muscMass = mass]

\* ------------------------------------------------ the per-muscle terms

TrigScale == 10 * 10

\* sin((pi/2)*u) and 1 - cos((pi/2)*u) in hundredths, at u = 0, 1/3, 2/3, 1:
\* sin of 0, 30, 60 and 90 degrees, and 1 - cos of the same.
SinHalfPi(u) ==
    CASE u = 0 -> 0 [] u = 1 -> 50 [] u = 2 -> 87 [] u = 3 -> 100

OneMinusCosHalfPi(u) ==
    CASE u = 0 -> 0 [] u = 1 -> 13 [] u = 2 -> 50 [] u = 3 -> 100

\* Adot = m * [ Adot_slow * r * sin((pi/2)*u) + Adot_fast * (1-r) * (1-cos((pi/2)*u)) ]
Adot(p, s) ==
    ( getMuscleMass(p) * 2 *
        ( p.activation_constant_slow_twitch * p.ratio_slow_twitch_fibers
              * SinHalfPi(s.u)
        + p.activation_constant_fast_twitch * (2 - p.ratio_slow_twitch_fibers)
              * OneMinusCosHalfPi(s.u) ) ) \div TrigScale

Mdot_FastShareNegated(p, s) ==
    ( getMuscleMass(p) * s.fL *
        ( p.maintenance_constant_slow_twitch * p.ratio_slow_twitch_fibers
              * SinHalfPi(s.u)
        + p.maintenance_constant_fast_twitch * (p.ratio_slow_twitch_fibers - 2)
              * OneMinusCosHalfPi(s.u) ) ) \div TrigScale

\* Mdot = m * f * [ Mdot_slow * r * sin((pi/2)*u) + Mdot_fast * (1-r) * (1-cos((pi/2)*u)) ]
Mdot(p, s) ==
    ( getMuscleMass(p) * s.fL *
        ( p.maintenance_constant_slow_twitch * p.ratio_slow_twitch_fibers
              * SinHalfPi(s.u)
        + p.maintenance_constant_fast_twitch * (2 - p.ratio_slow_twitch_fibers)
              * OneMinusCosHalfPi(s.u) ) ) \div TrigScale

AlphaIsoCoef == 160
AlphaActiveCoef == 180
AlphaNegativeCoef == 157
AlphaTotalCoef == 250

Alpha_FlagSwapped(s, forceDep) ==
    IF ~forceDep
    THEN IF s.vCE >= 0
         THEN AlphaIsoCoef * s.Fiso + AlphaActiveCoef * s.Fce
         ELSE AlphaNegativeCoef * s.Fce
    ELSE IF s.vCE >= 0
         THEN AlphaTotalCoef * (s.Fce + s.Fpas)
         ELSE 0

\* alpha, in thousandths of a newton
Alpha(s, forceDep) ==
    IF forceDep
    THEN IF s.vCE >= 0
         THEN AlphaIsoCoef * s.Fiso + AlphaActiveCoef * s.Fce
         ELSE AlphaNegativeCoef * s.Fce
    ELSE IF s.vCE >= 0
         THEN AlphaTotalCoef * (s.Fce + s.Fpas)
         ELSE 0

Sdot_PlusAlphaV(s, forceDep) == (Alpha(s, forceDep) * s.vCE) * UnitsPerMilliWatt

\* Sdot = -alpha * v_CE
Sdot(s, forceDep) == (0 - Alpha(s, forceDep) * s.vCE) * UnitsPerMilliWatt

Wdot_BothSigns(s) == (0 - s.Fce * s.vCE) * UnitsPerWatt

\* Wdot = -F_CE * v_CE for v_CE >= 0, 0 for v_CE < 0
Wdot(s) == IF s.vCE >= 0 THEN (0 - s.Fce * s.vCE) * UnitsPerWatt ELSE 0

computeTerms(p, s, forceDep) ==
    [ Adot |-> Adot(p, s), Mdot |-> Mdot(p, s),
      Sdot |-> Sdot(s, forceDep), Wdot |-> Wdot(s) ]

\* The terms with the proportionality constant they were computed from.
computeTermsTraced(p, s, forceDep) ==
    [ alpha |-> Alpha(s, forceDep), terms |-> computeTerms(p, s, forceDep) ]

\* ------------------------------------------------------- mass resolution

MassDivisor == 10 * 10 * 10

NoError == "none"
ConfigurationError == "ConfigurationError"
UnresolvedMuscleError == "UnresolvedMuscleError"

resolveMass_AlwaysDerived(p, Fmax, Lopt) ==
    [ err |-> NoError,
      mass |-> ((Fmax \div p.specific_tension) * p.density * Lopt) \div MassDivisor ]

\* m = provided_muscle_mass, or (Fmax/specific_tension)*density*Lm_opt
resolveMass(p, Fmax, Lopt) ==
    IF p.use_provided_muscle_mass
    THEN IF IsNaN(p.provided_muscle_mass)
         THEN [ err |-> ConfigurationError, mass |-> NaN ]
         ELSE [ err |-> NoError, mass |-> p.provided_muscle_mass ]
    ELSE [ err |-> NoError,
           mass |-> ((Fmax \div p.specific_tension) * p.density * Lopt)
                        \div MassDivisor ]

\* ----------------------------------------------------------- the model

\* The muscles of the model the probe is attached to: name -> Fmax (N) and
\* optimal fiber length (mm).
ModelMuscles ==
    [ n \in {"m1", "m2"} |->
        IF n = "m1" THEN [ Fmax |-> 2500, Lopt |-> 100 ]
                    ELSE [ Fmax |-> 5000, Lopt |-> 100 ] ]

\* A name that is no muscle of the model.
UnknownMuscle == "zz"

ProvidedMasses == { 2 * MassUnitsPerKg }

\* The parameters the configuration may build for a muscle of the model: mass
\* derived, mass provided, and mass required but never provided.
ParameterChoices ==
    { MetabolicMuscleParameter0 }
    \cup { MetabolicMuscleParameter2(2, m) : m \in ProvidedMasses }
    \cup { set_use_provided_muscle_mass(MetabolicMuscleParameter0, TRUE) }

\* The named entries the configuration may add.
ParameterEntries ==
    { setName(p, n) : p \in ParameterChoices, n \in DOMAIN ModelMuscles }
    \cup { setName(MetabolicMuscleParameter0, UnknownMuscle) }

\* The dynamic state of one muscle at an instant.
MuscleState(u, fL, vCE, Fce, Fiso, Fpas) ==
    [ u |-> u, fL |-> fL, vCE |-> vCE, Fce |-> Fce, Fiso |-> Fiso, Fpas |-> Fpas ]

\* At rest; fully excited and lengthening; unexcited and lengthening; fully
\* excited and shortening.
MuscleStates ==
    { MuscleState(0, 2, 0, 0, 0, 0),
      MuscleState(3, 1, 2, 100, 80, 20),
      MuscleState(0, 0, 2, 100, 100, 20),
      MuscleState(3, 2, -2, 100, 120, 0) }

BodyMasses == {70}

\* ----------------------------------------------------------- the probe

Booleans == {TRUE, FALSE}

FlagSettings ==
    [ activation_rate_on : Booleans,
      maintenance_rate_on : Booleans,
      shortening_rate_on : Booleans,
      basal_rate_on : Booleans,
      mechanical_work_rate_on : Booleans,
      enforce_minimum_heat_rate_per_muscle : Booleans,
      use_force_dependent_shortening_prop_constant : Booleans ]

BasalCoefficient == 12
BasalExponents == {1, 2}
ProbeNames == {"metabolics", "probe2"}

Bdot_PerKgOfMuscle(f, e, bodyMass, ps) ==
    IF f.basal_rate_on
    THEN BasalCoefficient
           * Pow(SumSeq([i \in 1..Len(ps) |-> getMuscleMass(ps[i])])
                   \div MassUnitsPerKg, e)
           * (UnitsPerWatt \div 10)
    ELSE 0

\* Bdot = basal_coefficient * (m_body^basal_exponent)
Bdot(f, e, bodyMass, ps) ==
    IF f.basal_rate_on
    THEN BasalCoefficient * Pow(bodyMass, e) * (UnitsPerWatt \div 10)
    ELSE 0

MinimumHeatRate(p) == getMuscleMass(p) * UnitsPerMassWatt

totalHeatRate_ClampAlways(p, s, f) ==
    LET t == computeTerms(p, s, f.use_force_dependent_shortening_prop_constant)
        raw == (IF f.activation_rate_on THEN t.Adot ELSE 0)
             + (IF f.maintenance_rate_on THEN t.Mdot ELSE 0)
             + (IF f.shortening_rate_on THEN t.Sdot ELSE 0)
    IN  IF f.enforce_minimum_heat_rate_per_muscle /\ raw < MinimumHeatRate(p)
        THEN MinimumHeatRate(p)
        ELSE raw

\* (Adot + Mdot + Sdot) of the enabled terms, capped to a minimum of 1.0 W/kg
totalHeatRate(p, s, f) ==
    LET t == computeTerms(p, s, f.use_force_dependent_shortening_prop_constant)
        raw == (IF f.activation_rate_on THEN t.Adot ELSE 0)
             + (IF f.maintenance_rate_on THEN t.Mdot ELSE 0)
             + (IF f.shortening_rate_on THEN t.Sdot ELSE 0)
    IN  IF /\ f.enforce_minimum_heat_rate_per_muscle
           /\ f.activation_rate_on
           /\ f.maintenance_rate_on
           /\ f.shortening_rate_on
           /\ raw < MinimumHeatRate(p)
        THEN MinimumHeatRate(p)
        ELSE raw

workRate_Unmasked(s, f) == Wdot(s)

workRate(s, f) == IF f.mechanical_work_rate_on THEN Wdot(s) ELSE 0

muscleTotal(p, s, f) == totalHeatRate(p, s, f) + workRate(s, f)

Edot_BasalPerMuscle(f, e, ps, in) ==
    SumSeq([i \in 1..Len(ps) |->
              Bdot(f, e, in.bodyMass, ps) + muscleTotal(ps[i], in.muscles[i], f)])

\* Edot = Bdot + sumOfAllMuscles(Adot + Mdot + Sdot + Wdot)
Edot(f, e, ps, in) ==
    Bdot(f, e, in.bodyMass, ps)
      + SumSeq([i \in 1..Len(ps) |-> muscleTotal(ps[i], in.muscles[i], f)])

computeProbeInputs(f, e, ps, in) == << Edot(f, e, ps, in) >>

\* The position of a name among the keys of a std::map<std::string, Muscle*>.
NameKey(n) == CASE n = "m1" -> 1 [] n = "m2" -> 2 [] OTHER -> 3

visitOrder_MapOrder(ps) ==
    CHOOSE q \in [ 1..Len(ps) -> { ps[i].name : i \in 1..Len(ps) } ] :
        \A i, j \in 1..Len(ps) : i < j => NameKey(q[i]) < NameKey(q[j])

\* The muscles an evaluation reads, in the order it reads them: one per entry
\* of the parameter set, in set order, each looked up by name.
visitOrder(ps) == [ i \in 1..Len(ps) |-> ps[i].name ]

getNumProbeInputs == 1

getProbeOutputLabels_PerMuscle(name, ps) == [i \in 1..Len(ps) |-> ps[i].name]

getProbeOutputLabels(name, ps) == << name >>

\* ------------------------------------------------------ connectToModel

checkParameter_RatioOnly(p) ==
    IF p.ratio_slow_twitch_fibers < 0 \/ p.ratio_slow_twitch_fibers > 2
    THEN ConfigurationError
    ELSE NoError

\* ConfigurationError for a slow-twitch ratio outside [0,1], a negative mass,
\* a negative density or a negative specific tension. The NaN of a mass that
\* was never provided is not negative.
checkParameter(p) ==
    IF \/ p.ratio_slow_twitch_fibers < 0
       \/ p.ratio_slow_twitch_fibers > 2
       \/ (~IsNaN(p.provided_muscle_mass) /\ p.provided_muscle_mass < 0)
       \/ p.density < 0
       \/ p.specific_tension < 0
    THEN ConfigurationError
    ELSE NoError

\* One entry of the set at connectToModel: find the muscle, check the
\* parameter, resolve the mass.
EntryError(p) ==
    IF p.name \notin DOMAIN ModelMuscles
    THEN UnresolvedMuscleError
    ELSE IF checkParameter(p) # NoError
    THEN checkParameter(p)
    ELSE resolveMass(p, ModelMuscles[p.name].Fmax, ModelMuscles[p.name].Lopt).err

FailingEntries(ps) == { i \in 1..Len(ps) : EntryError(ps[i]) # NoError }

FirstOf(S) == CHOOSE i \in S : \A j \in S : i <= j

connectError_SkipUnresolved(ps) ==
    LET bad == { i \in FailingEntries(ps) : EntryError(ps[i]) = ConfigurationError }
    IN  IF bad = {} THEN NoError ELSE EntryError(ps[FirstOf(bad)])

\* The error of the first entry, in set order, that cannot be bound.
connectError(ps) ==
    IF FailingEntries(ps) = {}
    THEN NoError
    ELSE EntryError(ps[FirstOf(FailingEntries(ps))])

connectIndividualMetabolicMuscle(p) ==
    IF p.name \in DOMAIN ModelMuscles
    THEN setMuscleMass(p,
            resolveMass(p, ModelMuscles[p.name].Fmax,
                        ModelMuscles[p.name].Lopt).mass)
    ELSE p

BoundNames(ps) == { ps[i].name : i \in 1..Len(ps) } \cap DOMAIN ModelMuscles

EmptyMap == [ n \in {} |-> 0 ]

\* ------------------------------------------------------------- actions

Unset == << >>

InitProbe ==
    /\ phase = "config"
    /\ params = << >>
    /\ muscleMap = EmptyMap
    /\ flags \in FlagSettings
    /\ basalExp \in BasalExponents
    /\ probeName \in ProbeNames
    /\ err = NoError
    /\ lastOp = "construct"
    /\ evalIn = Unset
    /\ out = Unset
    /\ visited = Unset

NoFunctionCall ==
    /\ termIn = Unset /\ termOut = Unset
    /\ massIn = Unset /\ massOut = Unset

Init == InitProbe /\ NoFunctionCall

\* metabolic_parameters.adoptAndAppend(p), p named n. The set is populated
\* during configuration, before the first evaluation.
AddParameter ==
    /\ phase \in {"config", "connected"}
    /\ out = Unset
    /\ Len(params) < MaxMuscles
    /\ \E p \in ParameterEntries :
          /\ \A i \in 1..Len(params) : params[i].name # p.name
          /\ params' = Append(params, p)
    /\ phase' = "config"
    /\ lastOp' = "add"
    /\ UNCHANGED <<muscleMap, flags, basalExp, probeName, err, evalIn, out,
                   visited, termIn, termOut, massIn, massOut>>

ConnectToModel ==
    /\ phase \in {"config", "connected"}
    /\ IF connectError(params) = NoError
       THEN /\ params' = [ i \in 1..Len(params) |->
                             connectIndividualMetabolicMuscle(params[i]) ]
            /\ muscleMap' = [ n \in BoundNames(params) |-> ModelMuscles[n] ]
            /\ phase' = "connected"
            /\ err' = NoError
            /\ lastOp' = IF phase = "connected" THEN "reconnect" ELSE "connect"
       ELSE /\ phase' = "failed"
            /\ err' = connectError(params)
            /\ lastOp' = "connect"
            /\ UNCHANGED <<params, muscleMap>>
    /\ UNCHANGED <<flags, basalExp, probeName, evalIn, out, visited,
                   termIn, termOut, massIn, massOut>>

ComputeProbeInputs_ReDerivesMass ==
    /\ phase = "connected"
    /\ \E b \in BodyMasses, ms \in [ 1..Len(params) -> MuscleStates ] :
          LET in == [ bodyMass |-> b, muscles |-> ms ]
          IN  /\ evalIn' = in
              /\ out' = computeProbeInputs(flags, basalExp, params, in)
    /\ visited' = visitOrder(params)
    /\ params' = [ i \in 1..Len(params) |->
                     setMuscleMass(params[i],
                        resolveMass_AlwaysDerived(params[i],
                            ModelMuscles[params[i].name].Fmax,
                            ModelMuscles[params[i].name].Lopt).mass) ]
    /\ lastOp' = "compute"
    /\ UNCHANGED <<phase, muscleMap, flags, basalExp, probeName, err,
                   termIn, termOut, massIn, massOut>>

\* computeProbeInputs(state) const: reads the set, the flags and the cached
\* masses, and returns the total for the muscles' dynamic states.
ComputeProbeInputs ==
    /\ phase = "connected"
    /\ \E b \in BodyMasses, ms \in [ 1..Len(params) -> MuscleStates ] :
          LET in == [ bodyMass |-> b, muscles |-> ms ]
          IN  /\ evalIn' = in
              /\ out' = computeProbeInputs(flags, basalExp, params, in)
    /\ visited' = visitOrder(params)
    /\ lastOp' = "compute"
    /\ UNCHANGED <<phase, params, muscleMap, flags, basalExp, probeName, err,
                   termIn, termOut, massIn, massOut>>

Next == AddParameter \/ ConnectToModel \/ ComputeProbeInputs

Spec == Init /\ [][Next]_vars

\* ------------------------------------- the per-muscle terms on their own

DefaultFlags ==
    [ activation_rate_on |-> TRUE,
      maintenance_rate_on |-> TRUE,
      shortening_rate_on |-> TRUE,
      basal_rate_on |-> TRUE,
      mechanical_work_rate_on |-> TRUE,
      enforce_minimum_heat_rate_per_muscle |-> TRUE,
      use_force_dependent_shortening_prop_constant |-> FALSE ]

FreshProbe ==
    /\ phase = "config"
    /\ params = << >>
    /\ muscleMap = EmptyMap
    /\ flags = DefaultFlags
    /\ basalExp = 1
    /\ probeName = "metabolics"
    /\ err = NoError
    /\ lastOp = "construct"
    /\ evalIn = Unset
    /\ out = Unset
    /\ visited = Unset

\* Parameters as a successful connectToModel leaves them.
TermParameters ==
    { setMuscleMass(MetabolicMuscleParameter1(r), m) :
          r \in {0, 1, 2}, m \in {10597, 2 * MassUnitsPerKg} }
    \cup { setMuscleMass(MetabolicMuscleParameter5(1, 25, 153, 74, 111),
                         MassUnitsPerKg) }

\* Values the fiber length dependence curve returns: the curve is a property
\* holding any piecewise linear function, so -0.5 is among them.
CurveValues == {-1, 0, 1, 2}

TermStates ==
    { MuscleState(u, fL, vCE, Fce, Fiso, Fpas) :
          u \in {0, 1, 2, 3}, fL \in CurveValues, vCE \in {-2, 0, 2},
          Fce \in {0, 100}, Fiso \in {0, 120}, Fpas \in {0, 20} }

InitTerms ==
    /\ FreshProbe
    /\ termIn \in [ p : TermParameters, s : TermStates, forceDep : Booleans ]
    /\ termOut = Unset
    /\ massIn = Unset /\ massOut = Unset

ComputeTerms ==
    /\ termOut = Unset
    /\ termOut' = computeTermsTraced(termIn.p, termIn.s, termIn.forceDep)
    /\ UNCHANGED <<phase, params, muscleMap, flags, basalExp, probeName, err,
                   lastOp, evalIn, out, visited, termIn, massIn, massOut>>

SpecTerms == InitTerms /\ [][ComputeTerms]_vars

\* ----------------------------------------- mass resolution on its own

SpecificTensions == {DefaultSpecificTension, 125}
Densities == {DefaultDensity, 10000}

\* How a parameter was built, and the parameter.
BuiltParameters ==
    { [ ctor |-> "default", mass |-> NaN, p |-> MetabolicMuscleParameter0 ] }
    \cup { [ ctor |-> "ratio", mass |-> NaN, p |-> MetabolicMuscleParameter1(r) ]
             : r \in {0, 2} }
    \cup { [ ctor |-> "ratio_mass", mass |-> m,
             p |-> MetabolicMuscleParameter2(1, m) ]
             : m \in {5000, 2 * MassUnitsPerKg} }
    \cup { [ ctor |-> "default_use", mass |-> NaN,
             p |-> set_use_provided_muscle_mass(MetabolicMuscleParameter0, TRUE) ] }
    \cup { [ ctor |-> "default_mass", mass |-> m,
             p |-> set_provided_muscle_mass(MetabolicMuscleParameter0, m) ]
             : m \in {5000} }

MassInputs ==
    { [ built |-> b.ctor, ctorMass |-> b.mass,
        p |-> set_density(set_specific_tension(b.p, st), d),
        Fmax |-> F, Lopt |-> L ] :
          b \in BuiltParameters, st \in SpecificTensions, d \in Densities,
          F \in {2500, 5000}, L \in {100, 200} }

InitMass ==
    /\ FreshProbe
    /\ massIn \in MassInputs
    /\ massOut = Unset
    /\ termIn = Unset /\ termOut = Unset

ResolveMass ==
    /\ massOut = Unset
    /\ massOut' = resolveMass(massIn.p, massIn.Fmax, massIn.Lopt)
    /\ UNCHANGED <<phase, params, muscleMap, flags, basalExp, probeName, err,
                   lastOp, evalIn, out, visited, termIn, termOut, massIn>>

SpecMass == InitMass /\ [][ResolveMass]_vars

\* ------------------------- connectToModel on sets of arbitrary parameters

\* Parameters as the constructors and the setters build them; neither checks
\* a value. Ratios of -0.5 and 1.5, masses of -0.5 kg and 0 kg, densities of
\* -1059.7 and 0 kg/m^3 and a specific tension of -0.25e6 Pa are among them.
BindParameters ==
    { MetabolicMuscleParameter0 }
    \cup { MetabolicMuscleParameter1(r) : r \in {-1, 0, 2, 3} }
    \cup { MetabolicMuscleParameter2(1, m) : m \in {-5000, 0, 2 * MassUnitsPerKg} }
    \cup { MetabolicMuscleParameter2(3, 2 * MassUnitsPerKg) }
    \cup { MetabolicMuscleParameter5(r, 25, 153, 74, 111) : r \in {1, 3} }
    \cup { set_ratio_slow_twitch_fibers(MetabolicMuscleParameter0, -1) }
    \cup { set_provided_muscle_mass(MetabolicMuscleParameter0, -5000) }
    \cup { set_density(MetabolicMuscleParameter0, d) : d \in {0 - DefaultDensity, 0} }
    \cup { set_specific_tension(MetabolicMuscleParameter0,
                                0 - DefaultSpecificTension) }
    \cup { set_use_provided_muscle_mass(MetabolicMuscleParameter0, TRUE) }

BindEntries ==
    { setName(p, n) : p \in BindParameters, n \in DOMAIN ModelMuscles }
    \cup { setName(p, UnknownMuscle) :
              p \in { MetabolicMuscleParameter0, MetabolicMuscleParameter1(3) } }

\* The parameter sets of at most MaxMuscles entries with distinct names.
BindSets ==
    UNION { { ps \in [ 1..n -> BindEntries ] :
                \A i, j \in 1..n : i # j => ps[i].name # ps[j].name }
            : n \in 0..MaxMuscles }

\* A probe with the default flags whose set was filled during configuration.
InitBind ==
    /\ phase = "config"
    /\ params \in BindSets
    /\ muscleMap = EmptyMap
    /\ flags = DefaultFlags
    /\ basalExp = 1
    /\ probeName = "metabolics"
    /\ err = NoError
    /\ lastOp = "add"
    /\ evalIn = Unset
    /\ out = Unset
    /\ visited = Unset
    /\ NoFunctionCall

NextBind == ConnectToModel \/ ComputeProbeInputs

SpecBind == InitBind /\ [][NextBind]_vars

\* ============================================================== claims

\* The proportionality constant the documentation gives for a muscle state,
\* in thousandths of a newton, branch by branch.
AlphaOf(s, forceDep) ==
    CASE forceDep /\ s.vCE >= 0 -> 160 * s.Fiso + 180 * s.Fce
      [] forceDep /\ s.vCE < 0 -> 157 * s.Fce
      [] ~forceDep /\ s.vCE >= 0 -> 250 * (s.Fce + s.Fpas)
      [] ~forceDep /\ s.vCE < 0 -> 0

C8_ResolveMass ==
    massOut # Unset =>
        LET p == massIn.p
        IN  /\ (p.use_provided_muscle_mass /\ ~IsNaN(p.provided_muscle_mass)) =>
                   /\ massOut.err = NoError
                   /\ massOut.mass = p.provided_muscle_mass
            /\ (p.use_provided_muscle_mass /\ IsNaN(p.provided_muscle_mass)) =>
                   massOut.err = ConfigurationError
            /\ ~p.use_provided_muscle_mass =>
                   /\ massOut.err = NoError
                   /\ massIn.Fmax % p.specific_tension = 0
                   /\ massOut.mass * 1000
                          = (massIn.Fmax \div p.specific_tension)
                                * p.density * massIn.Lopt
            /\ massIn.built = "ratio_mass" =>
                   /\ massOut.err = NoError
                   /\ massOut.mass = massIn.ctorMass
            /\ massIn.built \in {"default", "ratio", "default_mass"} =>
                   ~p.use_provided_muscle_mass

C8_Witness ==
    /\ massOut # Unset
    /\ massIn.built = "ratio_mass"
    /\ massIn.ctorMass = 5000
    /\ massIn.p.density = 10000
    /\ massOut.mass = 5000

\* ---- the last evaluation, term by term

AllHeatRatesOn ==
    /\ flags.activation_rate_on
    /\ flags.maintenance_rate_on
    /\ flags.shortening_rate_on

\* 1.0 W/kg on the cached mass of muscle i
FloorOf(i) == (getMuscleMass(params[i]) * UnitsPerWatt) \div MassUnitsPerKg

\* The sum of the enabled heat terms of muscle i, before any floor.
RawHeatOf(i) ==
    LET p == params[i]
        s == evalIn.muscles[i]
    IN  (IF flags.activation_rate_on THEN Adot(p, s) ELSE 0)
      + (IF flags.maintenance_rate_on THEN Mdot(p, s) ELSE 0)
      + (IF flags.shortening_rate_on
         THEN Sdot(s, flags.use_force_dependent_shortening_prop_constant)
         ELSE 0)

HeatOf(i) ==
    IF flags.enforce_minimum_heat_rate_per_muscle /\ AllHeatRatesOn
    THEN Max(RawHeatOf(i), FloorOf(i))
    ELSE RawHeatOf(i)

WorkOf(i) ==
    IF flags.mechanical_work_rate_on THEN Wdot(evalIn.muscles[i]) ELSE 0

BasalOf ==
    IF flags.basal_rate_on
    THEN 12 * Pow(evalIn.bodyMass, basalExp) * (UnitsPerWatt \div 10)
    ELSE 0

\* C3: the heat sum of a muscle is floored exactly when
\* enforce_minimum_heat_rate_per_muscle and the activation, maintenance and
\* shortening flags are all true; then it is max(Adot+Mdot+Sdot, 1.0*mass)
\* for the muscle's own mass; otherwise it is the raw sum of the enabled terms.
C3_MinimumHeatRate ==
    out # Unset =>
        /\ \A i \in 1..Len(params) :
              /\ totalHeatRate(params[i], evalIn.muscles[i], flags) = HeatOf(i)
              /\ (flags.enforce_minimum_heat_rate_per_muscle /\ AllHeatRatesOn) =>
                    /\ HeatOf(i) >= FloorOf(i)
                    /\ RawHeatOf(i) >= FloorOf(i) => HeatOf(i) = RawHeatOf(i)
        /\ ( /\ Len(params) = 1
             /\ ~flags.basal_rate_on
             /\ ~flags.mechanical_work_rate_on ) => out[1] = HeatOf(1)

\* One muscle at rest, every heat term on, basal and work off: the total is
\* the floor of that muscle.
C3_Witness ==
    /\ out # Unset
    /\ Len(params) = 1
    /\ flags.enforce_minimum_heat_rate_per_muscle /\ AllHeatRatesOn
    /\ ~flags.basal_rate_on /\ ~flags.mechanical_work_rate_on
    /\ RawHeatOf(1) = 0
    /\ getMuscleMass(params[1]) = 10597
    /\ out[1] = 10597 * 4

\* C4: the total is Bdot (basal on) plus, over the muscles, the heat sum after
\* masking and the floor plus Wdot (work on); Bdot = basal_coefficient *
\* bodyMass^basal_exponent enters once, from the body mass of the model, and
\* Wdot is added after the floor.
C4_TotalIsBasalPlusMuscles ==
    out # Unset =>
        out[1] = BasalOf
                   + SumSeq([i \in 1..Len(params) |-> HeatOf(i) + WorkOf(i)])

\* Two muscles, all flags on, the first one floored while doing negative work.
C4_Witness ==
    /\ out # Unset
    /\ Len(params) = 2
    /\ flags.basal_rate_on /\ flags.mechanical_work_rate_on
    /\ flags.enforce_minimum_heat_rate_per_muscle /\ AllHeatRatesOn
    /\ basalExp = 2
    /\ RawHeatOf(1) < FloorOf(1)
    /\ WorkOf(1) < 0
    /\ RawHeatOf(2) > FloorOf(2)

\* C5: with the activation, maintenance, shortening, work and basal flags all
\* false the total is 0, whatever enforce_minimum_heat_rate_per_muscle is.
C5_AllOffIsZero ==
    ( /\ out # Unset
      /\ ~flags.activation_rate_on
      /\ ~flags.maintenance_rate_on
      /\ ~flags.shortening_rate_on
      /\ ~flags.mechanical_work_rate_on
      /\ ~flags.basal_rate_on ) => out = << 0 >>

C5_Witness ==
    /\ out = << 0 >>
    /\ ~flags.activation_rate_on
    /\ ~flags.maintenance_rate_on
    /\ ~flags.shortening_rate_on
    /\ ~flags.mechanical_work_rate_on
    /\ ~flags.basal_rate_on
    /\ flags.enforce_minimum_heat_rate_per_muscle
    /\ Len(params) = 2
    /\ evalIn.muscles[1].vCE = 2 /\ evalIn.muscles[1].u = 3
    /\ evalIn.muscles[2].vCE = -2

\* C6: with an empty parameter set connectToModel succeeds and the total is
\* the basal term when basal is on (84 W for body mass 70, coefficient 1.2,
\* exponent 1) and 0 when it is off.
C6_EmptySet ==
    Len(params) = 0 =>
        /\ phase # "failed"
        /\ out # Unset =>
              /\ flags.basal_rate_on =>
                    out[1] = 12 * Pow(evalIn.bodyMass, basalExp)
                                * (UnitsPerWatt \div 10)
              /\ (flags.basal_rate_on /\ basalExp = 1 /\ evalIn.bodyMass = 70) =>
                    out[1] = 84 * UnitsPerWatt
              /\ ~flags.basal_rate_on => out[1] = 0

C6_Witness ==
    /\ Len(params) = 0
    /\ phase = "connected"
    /\ flags.basal_rate_on
    /\ ~flags.activation_rate_on
    /\ basalExp = 1
    /\ out = << 84 * UnitsPerWatt >>

\* ---- connectToModel

ConnectStep == lastOp' \in {"connect", "reconnect"}

MissingEntries == { i \in 1..Len(params) : params[i].name \notin DOMAIN ModelMuscles }

\* A value the documentation of connectToModel promises to refuse.
OutOfRange(p) ==
    \/ p.ratio_slow_twitch_fibers < 0
    \/ p.ratio_slow_twitch_fibers > 2
    \/ (p.provided_muscle_mass # NaN /\ p.provided_muscle_mass < 0)
    \/ p.density < 0
    \/ p.specific_tension < 0

\* An entry before entry i is refused for its missing provided mass or for
\* a value out of range.
MassMissingBefore(i) ==
    \E j \in 1..(i - 1) :
        \/ /\ params[j].use_provided_muscle_mass
           /\ IsNaN(params[j].provided_muscle_mass)
        \/ OutOfRange(params[j])

C9_ConnectIdempotent ==
    /\ [][ (phase = "connected" /\ ConnectStep) =>
              /\ phase' = "connected"
              /\ params' = params
              /\ muscleMap' = muscleMap ]_vars
    /\ []( out # Unset =>
              out = computeProbeInputs(flags, basalExp, params, evalIn) )

C9_Witness ==
    /\ lastOp = "reconnect"
    /\ Len(params) = 2
    /\ out # Unset
    /\ getMuscleMass(params[1]) = 10597
    /\ getMuscleMass(params[2]) = 2 * MassUnitsPerKg

\* C10: in every state the probe has one output, one label equal to the
\* probe's name, and an evaluation yields one scalar, whatever the size of the
\* parameter set.
C10_OneOutput ==
    /\ getNumProbeInputs = 1
    /\ getProbeOutputLabels(probeName, params) = << probeName >>
    /\ out # Unset => Len(out) = getNumProbeInputs

C10_Witness ==
    /\ Len(params) = 2
    /\ probeName = "probe2"
    /\ out # Unset
    /\ Len(out) = 1

\* ---- computeProbeInputs as a read-only operation

EvaluateStep == lastOp' = "compute"

\* C11: an evaluation changes nothing the probe owns: every cached mass, the
\* muscle map, the parameter set, the flags, the basal exponent and the
\* connection stay as connectToModel left them; an evaluation of the state
\* evaluated last returns the same total, and every total is the one the
\* parameters as bound give for the evaluated state alone.
C11_EvaluateReadsOnly ==
    /\ [][ EvaluateStep =>
              /\ params' = params
              /\ muscleMap' = muscleMap
              /\ flags' = flags
              /\ basalExp' = basalExp
              /\ probeName' = probeName
              /\ phase' = phase
              /\ err' = err ]_vars
    /\ [][ (EvaluateStep /\ out # Unset /\ evalIn' = evalIn) => out' = out ]_vars
    /\ []( out # Unset =>
              /\ Len(out) = 1
              /\ out[1] = Edot(flags, basalExp, params, evalIn)
              /\ \A i \in 1..Len(params) :
                    getMuscleMass(params[i])
                        = resolveMass(params[i], muscleMap[params[i].name].Fmax,
                                      muscleMap[params[i].name].Lopt).mass )

\* After an evaluation of two bound muscles, one with a derived and one with
\* a provided mass, both masses and both bindings are the ones of the bind.
C11_Witness ==
    /\ lastOp = "compute"
    /\ Len(params) = 2
    /\ DOMAIN muscleMap = {"m1", "m2"}
    /\ ~params[1].use_provided_muscle_mass
    /\ params[2].use_provided_muscle_mass
    /\ getMuscleMass(params[1]) = 21194
    /\ getMuscleMass(params[2]) = 2 * MassUnitsPerKg
    /\ evalIn.muscles[1].vCE = -2

OutOfRangeEntries == { i \in 1..Len(params) : OutOfRange(params[i]) }

MissingUpTo(i) == \E j \in 1..i : params[j].name \notin DOMAIN ModelMuscles

ValidTermInputs ==
    /\ termIn.s.u \in 0..3
    /\ termIn.p.ratio_slow_twitch_fibers \in 0..2
    /\ getMuscleMass(termIn.p) > 0
    /\ termIn.p.activation_constant_slow_twitch >= 0
    /\ termIn.p.activation_constant_fast_twitch >= 0
    /\ termIn.p.maintenance_constant_slow_twitch >= 0
    /\ termIn.p.maintenance_constant_fast_twitch >= 0

====
